---- MODULE Spec2Model ----
(***************************************************************************)
(* Model of the A2A agent wrapper (examples/gcp_agent_wrapper.py), of the  *)
(* dashboard client (web_ui/streamlit_app.py) and of the orchestrator's    *)
(* asynchronous channel the dashboard talks to.                            *)
(*                                                                         *)
(* Optional values: Python's None is the empty tuple <<>>, a present       *)
(* string s is the one-element tuple <<s>>.                                *)
(***************************************************************************)
EXTENDS Naturals, Sequences, FiniteSets, TLC

VARIABLES
    API_KEY,        \* os.getenv("API_KEY"), read once at import
    AGENT_NAME,     \* os.getenv("AGENT_NAME", "gcp-adk-agent"), read once at import
    pc,             \* caller -> where its execute_task coroutine is
    request,        \* caller -> the TaskRequest of its call
    x_api_key,      \* caller -> the X-API-Key header of its call
    invocations,    \* caller -> how often its call entered process_task
    elapsed,        \* caller -> seconds its call has been suspended in process_task
    result,         \* caller -> what process_task gave the call
    returned,       \* caller -> the TaskResponses the call returned
    raised,         \* caller -> the HTTPExceptions the call raised
    queue,          \* the durable queue of AsyncEnvelopes
    envelopes,      \* every AsyncEnvelope enqueue has returned, in order
    worker,         \* worker -> the envelope it is processing
    store,          \* the response-record store: the unacknowledged
                    \* ResponseRecords, in the order of their completion time
    ui_submit,      \* dashboard: user and message id of its last async submit,
                    \* and whether that message's record was acknowledged
    lastPoll,       \* dashboard: filter, limit and records of its last fetch
                    \* since the last acknowledgment
    wroteSincePoll  \* whether a record was written since that fetch

syncVars == <<API_KEY, AGENT_NAME, pc, request, x_api_key, invocations,
              elapsed, result, returned, raised>>

asyncVars == <<queue, envelopes, worker, store, ui_submit, lastPoll,
               wroteSincePoll>>

vars == <<syncVars, asyncVars>>

(***************************************************************************)
(* Bounds                                                                  *)
(***************************************************************************)
NumCallers == 2
TickSeconds == 10
MaxElapsed == 40
MaxTasks == 2
MaxDeliveries == 2

Workers == {"w1", "w2"}

Callers == 1..NumCallers

(***************************************************************************)
(* Configuration and inputs                                                *)
(***************************************************************************)
None == <<>>
Some(s) == <<s>>

\* bool(v) of an Optional[str]: None and "" are falsy
Truthy(v) == v # None /\ v # Some("")

DefaultAgentName == "gcp-adk-agent"

ApiKeyEnv == {None, Some(""), Some("s3cret")}
AgentNameEnv == {DefaultAgentName, "travel-agent"}
PresentedKeys == {None, Some("s3cret"), Some("wrong")}

EmptyDict == [k \in {} |-> ""]

TaskRequest(task, user_id, context) ==
    [task |-> task, user_id |-> user_id, context |-> context, metadata |-> EmptyDict]

Requests ==
    { TaskRequest("Convert 100 USD to EUR", "u1", Some(EmptyDict)),
      TaskRequest("Plan a trip to Paris", "anonymous", None) }

TimeoutSeconds == 30

\* the environment's defaults for what the model does not vary
AGENT_DESCRIPTION == "ADK-based agent running in Google Cloud"
AGENT_CAPABILITIES == <<"general", "nlp", "conversation">>
AGENT_KEYWORDS == <<"chat", "assistant", "help">>

agent_discovery ==
    [ name |-> AGENT_NAME,
      description |-> AGENT_DESCRIPTION,
      capabilities |-> AGENT_CAPABILITIES,
      keywords |-> AGENT_KEYWORDS,
      contact |-> [platform |-> "Google Cloud Platform",
                   region |-> "us-central1",
                   service |-> "cloud-run"],
      version |-> "1.0.0",
      protocol |-> "a2a",
      endpoints |-> [execute |-> "/execute", health |-> "/health", metrics |-> "/metrics"],
      limits |-> [max_task_length |-> 10000,
                  timeout_seconds |-> TimeoutSeconds,
                  rate_limit |-> "100/minute"] ]

\* the placeholder body of process_task
process_task(task, user_id, context) ==
    "Processed by " \o AGENT_NAME \o ": " \o task

\* context=request.context or {}
ContextArg(req) == IF req.context = None THEN EmptyDict ELSE req.context[1]

\* process_task is the pluggable part: what an implementation may return or raise
ProcessTexts(req) ==
    { process_task(req.task, req.user_id, ContextArg(req)), "86.42 EUR" }
ProcessErrors == { "quota exceeded" }
AllTexts == UNION { ProcessTexts(req) : req \in Requests }

(***************************************************************************)
(* execute_task                                                            *)
(***************************************************************************)
\* variants of the API-key test: one that only notices a missing header, one
\* that forgets the "API_KEY and" guard of open mode
RejectedMissingOnly(key) == Truthy(API_KEY) /\ key = None
RejectedAlsoInOpenMode(key) == key # API_KEY

\* if API_KEY and x_api_key != API_KEY
Rejected(key) == Truthy(API_KEY) /\ key # API_KEY

Unauthorized == [status_code |-> 401, detail |-> "Invalid or missing API key"]

\* variant that names the default agent instead of the configured one
TaskResponseDefaultAgent(text) ==
    [ result |-> text,
      agent |-> DefaultAgentName,
      status |-> "completed",
      metadata |-> [platform |-> "gcp", service |-> "cloud-run", region |-> "unknown"] ]

\* GCP_REGION is taken as unset: region is its default, "unknown"
TaskResponse(text) ==
    [ result |-> text,
      agent |-> AGENT_NAME,
      status |-> "completed",
      metadata |-> [platform |-> "gcp", service |-> "cloud-run", region |-> "unknown"] ]

\* variant that hides the failure detail from the caller
ExecutionFailedNoDetail(e) ==
    [status_code |-> 500, detail |-> "Internal Server Error"]

ExecutionFailed(e) ==
    [status_code |-> 500, detail |-> "Task execution failed: " \o e]

\* POST /execute arrives: the handler runs up to its await, or raises 401
execute_task(c, req, key) ==
    /\ pc[c] = "idle"
    /\ request' = [request EXCEPT ![c] = Some(req)]
    /\ x_api_key' = [x_api_key EXCEPT ![c] = key]
    /\ IF Rejected(key)
       THEN /\ raised' = [raised EXCEPT ![c] = Append(@, Unauthorized)]
            /\ pc' = [pc EXCEPT ![c] = "done"]
            /\ UNCHANGED <<invocations, elapsed>>
       ELSE /\ pc' = [pc EXCEPT ![c] = "awaiting"]
            /\ invocations' = [invocations EXCEPT ![c] = @ + 1]
            /\ elapsed' = [elapsed EXCEPT ![c] = 0]
            /\ UNCHANGED raised
    /\ UNCHANGED <<API_KEY, AGENT_NAME, result, returned, asyncVars>>

\* variant that keeps `result` in one module-level slot shared by all calls
execute_task_returns_shared(c, text) ==
    /\ pc[c] = "awaiting"
    /\ text \in ProcessTexts(request[c][1])
    /\ result' = [d \in Callers |-> <<"returned", text>>]
    /\ returned' = [returned EXCEPT ![c] = Append(@, TaskResponse(text))]
    /\ pc' = [pc EXCEPT ![c] = "done"]
    /\ elapsed' = [elapsed EXCEPT ![c] = 0]
    /\ UNCHANGED <<API_KEY, AGENT_NAME, request, x_api_key, invocations, raised, asyncVars>>

\* process_task returns text: the handler resumes and returns the TaskResponse
execute_task_returns(c, text) ==
    /\ pc[c] = "awaiting"
    /\ text \in ProcessTexts(request[c][1])
    /\ result' = [result EXCEPT ![c] = <<"returned", text>>]
    /\ returned' = [returned EXCEPT ![c] = Append(@, TaskResponse(text))]
    /\ pc' = [pc EXCEPT ![c] = "done"]
    /\ elapsed' = [elapsed EXCEPT ![c] = 0]
    /\ UNCHANGED <<API_KEY, AGENT_NAME, request, x_api_key, invocations, raised, asyncVars>>

\* variant whose except clause logs the error and raises nothing
execute_task_fails_swallowed(c, e) ==
    /\ pc[c] = "awaiting"
    /\ result' = [result EXCEPT ![c] = <<"raised", e>>]
    /\ pc' = [pc EXCEPT ![c] = "done"]
    /\ elapsed' = [elapsed EXCEPT ![c] = 0]
    /\ UNCHANGED <<API_KEY, AGENT_NAME, request, x_api_key, invocations, returned, raised, asyncVars>>

\* variant whose except clause calls process_task once more before giving up
execute_task_fails_retrying(c, e) ==
    /\ pc[c] = "awaiting"
    /\ IF invocations[c] < 2
       THEN /\ invocations' = [invocations EXCEPT ![c] = @ + 1]
            /\ UNCHANGED <<pc, result, raised>>
       ELSE /\ result' = [result EXCEPT ![c] = <<"raised", e>>]
            /\ raised' = [raised EXCEPT ![c] = Append(@, ExecutionFailed(e))]
            /\ pc' = [pc EXCEPT ![c] = "done"]
            /\ UNCHANGED invocations
    /\ elapsed' = [elapsed EXCEPT ![c] = 0]
    /\ UNCHANGED <<API_KEY, AGENT_NAME, request, x_api_key, returned, asyncVars>>

\* process_task raises Exception(e): the handler's except clause raises 500
execute_task_fails(c, e) ==
    /\ pc[c] = "awaiting"
    /\ result' = [result EXCEPT ![c] = <<"raised", e>>]
    /\ raised' = [raised EXCEPT ![c] = Append(@, ExecutionFailed(e))]
    /\ pc' = [pc EXCEPT ![c] = "done"]
    /\ elapsed' = [elapsed EXCEPT ![c] = 0]
    /\ UNCHANGED <<API_KEY, AGENT_NAME, request, x_api_key, invocations, returned, asyncVars>>

\* time passes while calls are suspended in process_task; nothing in the
\* handler watches the clock
Tick ==
    /\ \E c \in Callers : pc[c] = "awaiting"
    /\ \A c \in Callers : pc[c] = "awaiting" => elapsed[c] + TickSeconds <= MaxElapsed
    /\ elapsed' = [c \in Callers |->
                     IF pc[c] = "awaiting" THEN elapsed[c] + TickSeconds ELSE elapsed[c]]
    /\ UNCHANGED <<API_KEY, AGENT_NAME, pc, request, x_api_key, invocations,
                   result, returned, raised, asyncVars>>

(***************************************************************************)
(* Asynchronous path: the dashboard's pages and, behind the orchestrator's *)
(* /task/async and /responses endpoints, the dispatcher, the worker loop   *)
(* and the response correlator.                                            *)
(***************************************************************************)
UiUsers == {"streamlit-user", "u1"}
UiTasks == {"", "Convert 100 USD to EUR"}
UserFilters == UiUsers \cup {"all"}
MaxMessages == {1, 2}
StatusCodes == {200, 503}

Range(f) == {f[i] : i \in DOMAIN f}

\* variant that posts without the sidebar's user id
SubmitPayloadAnonymous(task_input, user_id) ==
    [task |-> task_input, user_id |-> "anonymous"]

\* payload = {"task": task_input, "user_id": user_id}
SubmitPayload(task_input, user_id) ==
    [task |-> task_input, user_id |-> user_id]

\* a fresh messageId: monotonically ordered, never reused
NewMessageId == Len(envelopes) + 1

AsyncEnvelope(payload) ==
    [message_id |-> NewMessageId,
     task |-> payload.task, user_id |-> payload.user_id, deliveries |-> 0]

ResponseRecord(env, response) ==
    [message_id |-> env.message_id, user_id |-> env.user_id,
     agent_used |-> AGENT_NAME, response |-> response]

\* variant that inserts a new record whatever the store holds
Insert(st, rec) == Append(st, rec)

\* the write of a ResponseRecord, keyed by messageId: the record of that
\* messageId is replaced, and the new one is the latest completed
Upsert(st, rec) ==
    Append(SelectSeq(st, LAMBDA r : r.message_id # rec.message_id), rec)

Matching(st, userFilter) ==
    SelectSeq(st, LAMBDA r : userFilter = "all" \/ r.user_id = userFilter)

\* poll(userFilter, maxMessages)
Poll(st, userFilter, maxMessages) ==
    LET all == Matching(st, userFilter)
    IN  SubSeq(all, 1, IF Len(all) < maxMessages THEN Len(all) ELSE maxMessages)

\* GET /responses/{userFilter}?max_messages=N
GetResponses(userFilter, maxMessages) ==
    LET res == Poll(store, userFilter, maxMessages)
    IN  [total |-> Len(res), responses |-> res]

\* variant of the page that hides what the previous fetch already showed
DisplayedOnlyNew(data) ==
    IF data.total > 0
    THEN SelectSeq(data.responses,
                   LAMBDA r : lastPoll = None \/ r \notin Range(lastPoll[1].responses))
    ELSE <<>>

\* what the Async Responses page shows of the reply
Displayed(data) == IF data.total > 0 THEN data.responses ELSE <<>>

\* Submit Task page, asynchronous mode: POST /task/async. On 200 the
\* dispatcher has committed the envelope and the page shows its message id;
\* on any other status nothing was enqueued and the page shows the error
SubmitTaskAsync(task_input, user_id, status_code) ==
    /\ task_input # ""
    /\ Len(envelopes) < MaxTasks
    /\ IF status_code = 200
       THEN LET env == AsyncEnvelope(SubmitPayload(task_input, user_id))
            IN  /\ queue' = Append(queue, env)
                /\ envelopes' = Append(envelopes, env)
                /\ ui_submit' = Some([user_id |-> user_id,
                                      message_id |-> env.message_id,
                                      acked |-> FALSE])
       ELSE UNCHANGED <<queue, envelopes, ui_submit>>
    /\ UNCHANGED <<syncVars, worker, store, lastPoll, wroteSincePoll>>

Idle == [w \in Workers |-> None]

\* a worker takes the next envelope off the queue
Dequeue(w) ==
    /\ worker[w] = None
    /\ queue # <<>>
    /\ worker' = [worker EXCEPT ![w] =
                    Some([envelope |-> [Head(queue) EXCEPT !.deliveries = @ + 1]])]
    /\ queue' = Tail(queue)
    /\ UNCHANGED <<syncVars, envelopes, store, ui_submit, lastPoll,
                   wroteSincePoll>>

\* the worker writes the record of its envelope; when the envelope's
\* completion does not reach the queue (settled = FALSE) it is delivered again
WriteRecord(w, response, settled) ==
    LET env == worker[w][1].envelope
    IN  /\ store' = Upsert(store, ResponseRecord(env, response))
        /\ wroteSincePoll' = (lastPoll # None)
        /\ worker' = [worker EXCEPT ![w] = None]
        /\ queue' = IF settled THEN queue ELSE Append(queue, env)
        /\ UNCHANGED <<syncVars, envelopes, ui_submit, lastPoll>>

\* the processing function returns text
WorkerCompletes(w, settled) ==
    /\ worker[w] # None
    /\ settled \/ worker[w][1].envelope.deliveries < MaxDeliveries
    /\ LET env == worker[w][1].envelope
       IN  WriteRecord(w, process_task(env.task, env.user_id, EmptyDict), settled)

\* the processing function fails: the failure is recorded as the response
WorkerRecordsFailure(w, e) ==
    /\ worker[w] # None
    /\ WriteRecord(w, "Task failed: " \o e, TRUE)

\* Async Responses page: Fetch Responses
FetchResponses(user_filter, max_msgs) ==
    /\ lastPoll' = Some([filter |-> user_filter, max |-> max_msgs,
                         responses |-> Displayed(GetResponses(user_filter, max_msgs))])
    /\ wroteSincePoll' = FALSE
    /\ UNCHANGED <<syncVars, queue, envelopes, worker, store, ui_submit>>

\* the caller acknowledges a record the last fetch showed it
Acknowledge(m) ==
    /\ lastPoll # None
    /\ \E r \in Range(lastPoll[1].responses) : r.message_id = m
    /\ \E r \in Range(store) : r.message_id = m
    /\ store' = SelectSeq(store, LAMBDA r : r.message_id # m)
    /\ ui_submit' = IF ui_submit # None /\ ui_submit[1].message_id = m
                    THEN Some([ui_submit[1] EXCEPT !.acked = TRUE])
                    ELSE ui_submit
    /\ lastPoll' = None
    /\ wroteSincePoll' = FALSE
    /\ UNCHANGED <<syncVars, queue, envelopes, worker>>

InitAsync ==
    /\ queue = <<>>
    /\ envelopes = <<>>
    /\ worker = Idle
    /\ store = <<>>
    /\ ui_submit = None
    /\ lastPoll = None
    /\ wroteSincePoll = FALSE

InitSync ==
    /\ API_KEY \in ApiKeyEnv
    /\ AGENT_NAME \in AgentNameEnv
    /\ pc = [c \in Callers |-> "idle"]
    /\ request = [c \in Callers |-> None]
    /\ x_api_key = [c \in Callers |-> None]
    /\ invocations = [c \in Callers |-> 0]
    /\ elapsed = [c \in Callers |-> 0]
    /\ result = [c \in Callers |-> <<>>]
    /\ returned = [c \in Callers |-> <<>>]
    /\ raised = [c \in Callers |-> <<>>]

Init == InitSync /\ InitAsync

Next ==
    \/ \E c \in Callers, req \in Requests, key \in PresentedKeys : execute_task(c, req, key)
    \/ \E c \in Callers, text \in AllTexts : execute_task_returns(c, text)
    \/ \E c \in Callers, e \in ProcessErrors : execute_task_fails(c, e)
    \/ Tick

Spec == Init /\ [][Next]_vars

\* the asynchronous path, with the environment unset (the defaults)
InitDefaults ==
    /\ InitSync
    /\ API_KEY = None
    /\ AGENT_NAME = DefaultAgentName
    /\ InitAsync

NextAsync ==
    \/ \E t \in UiTasks, u \in UiUsers, sc \in StatusCodes : SubmitTaskAsync(t, u, sc)
    \/ \E w \in Workers : Dequeue(w)
    \/ \E w \in Workers, settled \in BOOLEAN : WorkerCompletes(w, settled)
    \/ \E w \in Workers, e \in ProcessErrors : WorkerRecordsFailure(w, e)
    \/ \E f \in UserFilters, n \in MaxMessages : FetchResponses(f, n)
    \/ \E m \in 1..MaxTasks : Acknowledge(m)

SpecAsync == InitDefaults /\ [][NextAsync]_vars

(***************************************************************************)
(* Properties of the synchronous path, specification Spec                  *)
(***************************************************************************)
Started(c) == pc[c] # "idle"
Done(c) == pc[c] = "done"
Is401(c) == \E i \in DOMAIN raised[c] : raised[c][i].status_code = 401

\* C1: with a secret configured, a call whose X-API-Key is missing or differs
\* from the secret ends at once with exactly one 401 and never enters
\* process_task; a call presenting the secret itself is never answered 401.
C1_SecretEnforced ==
    \A c \in Callers :
        (Started(c) /\ Truthy(API_KEY)) =>
            IF x_api_key[c] # API_KEY
            THEN /\ Done(c)
                 /\ raised[c] = << [status_code |-> 401,
                                    detail |-> "Invalid or missing API key"] >>
                 /\ returned[c] = <<>>
                 /\ invocations[c] = 0
                 /\ result[c] = <<>>
            ELSE ~Is401(c)

C1_Witness ==
    /\ Truthy(API_KEY)
    /\ \E c, d \in Callers :
          /\ Done(c) /\ x_api_key[c] = Some("wrong") /\ Is401(c)
          /\ Done(d) /\ x_api_key[d] = API_KEY /\ Len(returned[d]) = 1

\* C2: a finished call has produced exactly one outcome, a TaskResponse or an
\* HTTPException, and an unfinished call has produced nothing.
C2_ExactlyOneOutcome ==
    \A c \in Callers :
        Len(returned[c]) + Len(raised[c]) = (IF Done(c) THEN 1 ELSE 0)

C2_Witness ==
    \E c, d \in Callers :
        /\ Done(c) /\ Len(returned[c]) = 1 /\ Len(raised[c]) = 0
        /\ Done(d) /\ Len(returned[d]) = 0 /\ Len(raised[d]) = 1
        /\ result[d] # <<>>

\* C3: a call is never still suspended in process_task once the published
\* timeout has passed (by then it would have returned Timeout).
C3_TimeoutBoundsProcessing ==
    \A c \in Callers :
        pc[c] = "awaiting" => elapsed[c] <= agent_discovery.limits.timeout_seconds

\* C4: a call whose process_task raised e ends with exactly one HTTP 500 whose
\* detail carries e, and returns no TaskResponse.
C4_FailureSurfaced ==
    \A c \in Callers :
        (result[c] # <<>> /\ result[c][1] = "raised") =>
            /\ Done(c)
            /\ Len(raised[c]) = 1
            /\ raised[c][1].status_code = 500
            /\ raised[c][1].detail = "Task execution failed: " \o result[c][2]
            /\ returned[c] = <<>>

C4_Witness ==
    \E c \in Callers :
        /\ result[c] = <<"raised", "quota exceeded">>
        /\ raised[c][1].detail = "Task execution failed: quota exceeded"

\* C5: in open mode (no secret, or an empty one) no call is answered 401,
\* whatever key it presents; every started call entered process_task.
C5_OpenMode ==
    ~Truthy(API_KEY) =>
        \A c \in Callers : ~Is401(c) /\ (Started(c) => invocations[c] = 1)

C5_Witness ==
    /\ API_KEY = None
    /\ \E c, d \in Callers :
          /\ Done(c) /\ x_api_key[c] = None /\ Len(returned[c]) = 1
          /\ Done(d) /\ x_api_key[d] = Some("wrong") /\ Len(returned[d]) = 1

\* C6: a call whose process_task returned text ends with exactly one
\* TaskResponse: result is that text, status is completed, agent is the name
\* the discovery document publishes.
C6_SuccessWrapped ==
    \A c \in Callers :
        (result[c] # <<>> /\ result[c][1] = "returned") =>
            /\ Done(c)
            /\ Len(returned[c]) = 1
            /\ returned[c][1].result = result[c][2]
            /\ returned[c][1].status = "completed"
            /\ returned[c][1].agent = agent_discovery.name
            /\ raised[c] = <<>>

C6_Witness ==
    /\ AGENT_NAME = "travel-agent"
    /\ \E c \in Callers :
          /\ result[c] = <<"returned", "Processed by travel-agent: Plan a trip to Paris">>
          /\ returned[c][1].agent = "travel-agent"

\* C10: interleaved calls are independent. A step of one call changes neither
\* the configuration nor anything of another call, and two finished calls
\* with the same request, the same key and the same process_task outcome
\* have the same outcome.
CallState(c) ==
    <<pc[c], request[c], x_api_key[c], invocations[c], elapsed[c],
      result[c], returned[c], raised[c]>>

SameOutcomeForSameInput ==
    \A c, d \in Callers :
        (Done(c) /\ Done(d) /\ request[c] = request[d]
         /\ x_api_key[c] = x_api_key[d] /\ result[c] = result[d]) =>
            (returned[c] = returned[d] /\ raised[c] = raised[d])

StepLeavesOthersAlone ==
    \A c \in Callers :
        pc'[c] # pc[c] =>
            /\ API_KEY' = API_KEY
            /\ AGENT_NAME' = AGENT_NAME
            /\ \A d \in Callers \ {c} : CallState(d)' = CallState(d)

C10_CallsIndependent ==
    []SameOutcomeForSameInput /\ [][StepLeavesOthersAlone]_vars

C10_Witness ==
    \E c, d \in Callers :
        /\ c # d
        /\ Done(c) /\ Len(returned[c]) = 1
        /\ pc[d] = "awaiting" /\ elapsed[d] > 0
        /\ result[d] = <<>>
        /\ request[c] # request[d]

\* C11: one call enters process_task at most once: exactly once when its key
\* passes the API-key test, never when it is answered 401, and a call whose
\* process_task raised has still entered it only once (no retry).
Authorized(c) == ~Truthy(API_KEY) \/ x_api_key[c] = API_KEY

C11_ProcessedAtMostOnce ==
    \A c \in Callers :
        /\ invocations[c] <= 1
        /\ Started(c) => invocations[c] = (IF Authorized(c) THEN 1 ELSE 0)
        /\ Is401(c) => invocations[c] = 0
        /\ (Done(c) /\ result[c] # <<>>) => invocations[c] = 1

C11_Witness ==
    \E c, d \in Callers :
        /\ Done(c) /\ result[c] = <<"raised", "quota exceeded">>
        /\ invocations[c] = 1
        /\ Done(d) /\ Is401(d) /\ invocations[d] = 0

(***************************************************************************)
(* Properties of the asynchronous path, specification SpecAsync            *)
(***************************************************************************)
Ids(recs) == {recs[i].message_id : i \in DOMAIN recs}
Shown(poll) == poll[1].responses

\* the dashboard fetches with the user of its last submit, whose message id
\* was not acknowledged, after the workers have run to completion
RoundTripCase(f) ==
    /\ ui_submit # None
    /\ f = ui_submit[1].user_id
    /\ ~ui_submit[1].acked
    /\ queue = <<>>
    /\ worker = Idle

\* C7 (as claimed): after enqueue(r) and the workers' completion,
\* poll(r.userId, 1) shows one record, and it carries the message id that
\* enqueue returned.
C7_RoundTripFirst ==
    [][ \A f \in UserFilters :
          (FetchResponses(f, 1) /\ RoundTripCase(f)) =>
              /\ Len(Shown(lastPoll')) = 1
              /\ Shown(lastPoll')[1].message_id = ui_submit[1].message_id ]_vars

\* C7 (amended): after enqueue(r) and the workers' completion the record of
\* the returned message id is stored under r.userId; poll(r.userId, n) shows
\* it whenever n is at least the number of that user's unacknowledged
\* records, and poll(r.userId, 1) shows that user's earliest completed
\* record, which is the envelope's exactly when no other is older.
C7_RoundTripOldest ==
    [][ \A f \in UserFilters, n \in MaxMessages :
          (FetchResponses(f, n) /\ RoundTripCase(f)) =>
              LET m == ui_submit[1].message_id
                  mine == Matching(store, f)
              IN  /\ m \in Ids(mine)
                  /\ \A i \in DOMAIN mine : mine[i].user_id = ui_submit[1].user_id
                  /\ n >= Len(mine) => m \in Ids(Shown(lastPoll'))
                  /\ n = 1 => Shown(lastPoll') = <<mine[1]>>
                  /\ (n = 1 /\ mine[1].message_id = m) =>
                         Shown(lastPoll')[1].message_id = m ]_vars

C7_Witness ==
    /\ ui_submit # None /\ lastPoll # None
    /\ queue = <<>> /\ worker = Idle
    /\ ~wroteSincePoll
    /\ lastPoll[1].max = 1
    /\ lastPoll[1].filter = ui_submit[1].user_id
    /\ Len(store) = 2
    /\ store[1].user_id = store[2].user_id
    /\ Len(Shown(lastPoll)) = 1
    /\ Shown(lastPoll)[1].message_id = ui_submit[1].message_id

\* the fetch repeats the last one: same filter, same limit, and since then
\* nothing was acknowledged and nothing written
Repeats(user_filter, max_msgs) ==
    /\ lastPoll # None
    /\ lastPoll[1].filter = user_filter
    /\ lastPoll[1].max = max_msgs
    /\ ~wroteSincePoll

\* C8 (as claimed): a fetch with the filter and limit of the one before it,
\* with no acknowledgment between the two, shows the same records.
C8_SamePollSameRecords ==
    [][ \A f \in UserFilters, n \in MaxMessages :
          (/\ FetchResponses(f, n)
           /\ lastPoll # None
           /\ lastPoll[1].filter = f /\ lastPoll[1].max = n) =>
              Shown(lastPoll') = Shown(lastPoll) ]_vars

\* C8 (amended): a fetch changes nothing in the store and shows no record
\* twice; a fetch with the filter and limit of the one before it, with no
\* acknowledgment and no record written between the two, shows the same
\* records; and a stored record leaves the store only by its acknowledgment.
C8_PollNonDestructive ==
    [][ /\ \A f \in UserFilters, n \in MaxMessages :
             FetchResponses(f, n) =>
                 /\ store' = store
                 /\ \A i, j \in DOMAIN Shown(lastPoll') :
                        Shown(lastPoll')[i].message_id = Shown(lastPoll')[j].message_id
                            => i = j
                 /\ Repeats(f, n) => Shown(lastPoll') = Shown(lastPoll)
        /\ \A m \in Ids(store) : m \in Ids(store') \/ Acknowledge(m) ]_vars

C8_Witness ==
    /\ lastPoll # None
    /\ ~wroteSincePoll
    /\ lastPoll[1].max = 2
    /\ Len(Shown(lastPoll)) = 2
    /\ Len(store) = 2

\* C9: the store never holds two records of one messageId, and the messageId
\* of every stored record is that of exactly one enqueued envelope, also
\* with several workers and redelivered envelopes.
C9_OneRecordPerMessage ==
    /\ \A i, j \in DOMAIN store :
           store[i].message_id = store[j].message_id => i = j
    /\ \A i \in DOMAIN store :
           Cardinality({k \in DOMAIN envelopes :
                           envelopes[k].message_id = store[i].message_id}) = 1

\* both workers are busy, one of them with a redelivered envelope whose
\* record the store already holds
C9_Witness ==
    \E w, v \in Workers :
        /\ w # v /\ worker[w] # None /\ worker[v] # None
        /\ worker[w][1].envelope.deliveries = 2
        /\ worker[w][1].envelope.message_id \in Ids(store)
        /\ worker[v][1].envelope.message_id # worker[w][1].envelope.message_id
====
